---- MODULE Spec2Model ----
(***************************************************************************)
(* ESCatastroLib: the entity-resolution layer of models/InfoCatastral.py.  *)
(*                                                                         *)
(* One behaviour is one constructor call, ParcelaCatastral(...) or         *)
(* MetaParcela(...), taken from its first statement to its return or to    *)
(* the exception that leaves it.  The constructor runs in steps; a step    *)
(* is one network request together with all the code that runs on its      *)
(* response up to the next request.  The Catastro services are the         *)
(* environment: every request is answered by any response of a bounded     *)
(* set.                                                                    *)
(*                                                                         *)
(* Python values: a dict is a record whose DOMAIN is the set of its keys,  *)
(* None is the record NoneV, a str is a string, a list is a sequence.  An  *)
(* object is the record of the attributes assigned so far (its __dict__),  *)
(* so an attribute is set iff it is in the DOMAIN.                         *)
(***************************************************************************)
EXTENDS Integers, Sequences, FiniteSets, TLC

VARIABLES
    cls,        \* the class whose constructor the caller invoked
    pc,         \* the statement the constructor is at
    args,       \* the arguments of the method that is running
    self,       \* the ParcelaCatastral under construction
    meta,       \* the MetaParcela under construction and its loop variables
    info,       \* the local info_cadastre of the running ParcelaCatastral method
    requests,   \* every network request issued so far, in order
    answer,     \* what the last request was answered
    ops,        \* what the code did with that answer, in order
    outcome,    \* running, returned, or the exception that left the constructor
    reads       \* what reading the derived properties of the returned parcel gave

vars == <<cls, pc, args, self, meta, info, requests, answer, ops, outcome, reads>>

----------------------------------------------------------------------------
(* Bounds of the model *)

\* regions in a descriptive record
MaxRegions == 2
\* largest ambiguity counter, and length of the umbrella list
MaxCudnp == 2
\* values in the boundary list gml:posList
MaxPosVals == 6
\* top-level values of an envelope handed to the classifier on its own
MaxTopLevel == 2

----------------------------------------------------------------------------
(* Python values *)

\* The argument value that stands for Python's None (the parameters' default).
NONE == "None"

NoneV == [None |-> TRUE]

IsNone(v) == "None" \in DOMAIN v

\* A test `is not None` in place of the truth value.
Truthy_mut(s) == s # NONE

\* Truth value of a str-or-None argument: None and '' are falsy.
Truthy(s) == s # NONE /\ s # ""

\* obj.k = v
SetAttr(obj, k, v) == [f \in DOMAIN obj \cup {k} |-> IF f = k THEN v ELSE obj[f]]

HasAttr(obj, k) == k \in DOMAIN obj

\* d.get(k1).get(k2)... reaches a value: every key on the path is present.
RECURSIVE HasPath(_, _)
HasPath(d, path) ==
    IF path = <<>> THEN TRUE
    ELSE /\ Head(path) \in DOMAIN d
         /\ HasPath(d[Head(path)], Tail(path))

RECURSIVE At(_, _)
At(d, path) == IF path = <<>> THEN d ELSE At(d[Head(path)], Tail(path))

\* ''.join(seq)
RECURSIVE Join(_)
Join(parts) == IF parts = <<>> THEN "" ELSE Head(parts) \o Join(Tail(parts))

\* A decoded JSON envelope is the sequence of its (key, value) pairs in order.
HasKey(env, k) == \E i \in DOMAIN env : env[i].key = k

\* env.get(k)
DictGet(env, k) ==
    IF HasKey(env, k)
    THEN env[CHOOSE i \in DOMAIN env : env[i].key = k].val
    ELSE NoneV

DigitVal(c) ==
    CASE c = "0" -> 0 [] c = "1" -> 1 [] c = "2" -> 2 [] c = "3" -> 3 [] c = "4" -> 4
      [] c = "5" -> 5 [] c = "6" -> 6 [] c = "7" -> 7 [] c = "8" -> 8 [] c = "9" -> 9

\* float(s) of a string of decimal digits, the string given as the sequence of
\* its characters.
RECURSIVE ParseFloat(_)
ParseFloat(s) ==
    IF s = <<>> THEN 0
    ELSE 10 * ParseFloat(SubSeq(s, 1, Len(s) - 1)) + DigitVal(s[Len(s)])

RECURSIVE SumSeq(_)
SumSeq(s) == IF s = <<>> THEN 0 ELSE Head(s) + SumSeq(Tail(s))

\* All sequences over S of length lo..hi.
SeqsOf(S, lo, hi) == UNION { [1..n -> S] : n \in lo..hi }

----------------------------------------------------------------------------
(* Exceptions and outcomes *)

Running == [status |-> "running", type |-> "", msg |-> ""]
Returned == [status |-> "returned", type |-> "", msg |-> ""]
Exc(type, msg) == [status |-> "raised", type |-> type, msg |-> msg]

MSG_PROJECTION == "El sistema de referencia no existe"
MSG_INSUFFICIENT == "No se ha proporcionado suficiente informacion para realizar la busqueda"
MSG_AMBIGUOUS == "Esta parcela tiene varias referencias catastrales. Usa un objeto MetaParcela."
MSG_EMPTY == "El servidor ha devuelto una respuesta vacia"
MSG_NOT_JSON == "El servidor no devuelve un JSON"
MSG_NO_STREET == "La calle no existe."
MSG_NO_NUMBER == "Ese numero no existe"

\* The result of a step: the exception it raised, or none (status "running").
NoExc == Running

----------------------------------------------------------------------------
(* The environment: what the Catastro services may answer *)

K_DNPRC == "consulta_dnprcResult"
K_DNPPP == "consulta_dnpppResult"
K_DNPLOC == "consulta_dnplocResult"

\* Upstream error lists; the first error is the one the classifier reports.
ErrorLists ==
    { <<[cod |-> "5", des |-> "NO EXISTE NINGUN INMUEBLE"]>>,
      <<[cod |-> "43", des |-> "EL NUMERO NO EXISTE"],
        [cod |-> "5", des |-> "NO EXISTE NINGUN INMUEBLE"]>> }

\* The two shapes of 'lerr': a dict holding the list under 'err', or the list.
Lerrs ==
    { [type |-> "dict", err |-> e] : e \in ErrorLists }
        \cup { [type |-> "list", items |-> e] : e \in ErrorLists }

\* The values of the dict bico.bi.idbi.rc, in order.
RCParts == { <<"15", "VK">>, <<"15", "PK">> }

\* A surface, as the characters of the string the service sends.
SurfStrs == { <<"3">>, <<"1", "2">> }

SurfLists(maxRegs) == SeqsOf(SurfStrs, 0, maxRegs)

LocsUrb == [lous |-> [lourb |-> [dir |-> [tv |-> "CL", nv |-> "MAYOR", pnp |-> "7"]]]]
LocsRus == [lors |-> [lorus |-> [cpp |-> [cpa |-> "149", cpo |-> "23"], npa |-> "PARAJE"]]]

Lcons(surfs) == [i \in DOMAIN surfs |-> [lcd |-> "VIVIENDA", dfcons |-> [stl |-> surfs[i]]]]
Lspr(surfs) == [i \in DOMAIN surfs |-> [dspr |-> [dcc |-> "LABOR", ssp |-> surfs[i]]]]

\* A bico block.  cn is the coded land-use field (NONE: the field is absent);
\* kind is the shape of the body: urban with constructions, urban without any
\* (no 'lcons' key) or rustic.
Bico(cn, kind, surfs, parts) ==
    LET idbi == IF cn = NONE THEN [rc |-> parts] ELSE [rc |-> parts, cn |-> cn]
        bi == [idbi |-> idbi,
               dt |-> [nm |-> "GETAFE", np |-> "MADRID",
                       locs |-> IF kind = "rus" THEN LocsRus ELSE LocsUrb],
               debi |-> [ant |-> "1990", luso |-> "Residencial"]]
    IN  CASE kind = "urb" -> [bi |-> bi, lcons |-> Lcons(surfs)]
          [] kind = "rus" -> [bi |-> bi, lspr |-> Lspr(surfs)]
          [] kind = "solar" -> [bi |-> bi]

Bicos(maxRegs) ==
    { Bico(cn, kind, surfs, parts) :
        cn \in {"UR", "RU", NONE}, kind \in {"urb", "rus"},
        surfs \in SurfLists(maxRegs), parts \in RCParts }
    \cup { Bico("UR", "solar", <<>>, parts) : parts \in RCParts }

\* The umbrella list lrcdnp of a multi-match answer.
Lrcdnps(maxLen) ==
    { [rcdnp |-> [i \in DOMAIN l |-> [rc |-> l[i]]]] : l \in SeqsOf(RCParts, 0, maxLen) }

\* The first-level value of a descriptive answer that carries no error list.
Payloads(maxRegs, maxCudnp) ==
    LET B == Bicos(maxRegs)
        L == Lrcdnps(maxCudnp)
    IN  { [bico |-> b] : b \in B }
        \cup { [control |-> [cudnp |-> n], bico |-> b] : n \in 0..maxCudnp, b \in B }
        \cup { [control |-> [cudnp |-> n], lrcdnp |-> l] : n \in 0..maxCudnp, l \in L }

ErrorValues == { [lerr |-> l] : l \in Lerrs }

\* The content of an answer of the callejero service under operation key k.
JsonContents(k, values) ==
    { [kind |-> "json", doc |-> <<>>] }
        \cup { [kind |-> "json", doc |-> <<[key |-> k, val |-> v]>>] :
                 v \in values \cup ErrorValues \cup {NoneV} }

OtherContents == { [kind |-> "transport_error"], [kind |-> "empty"], [kind |-> "text"] }

----------------------------------------------------------------------------
(* utils.comprobar_errores, exceptions.lanzar_excepcion *)

lanzar_excepcion(mensaje_error) == Exc("ErrorServidorCatastro", mensaje_error)

\* A classifier that inspects the last top-level value, not the first.
comprobar_errores_last(respuesta) ==
    IF Len(respuesta) > 0
    THEN LET first == respuesta[Len(respuesta)].val
         IN  IF ~IsNone(first) /\ "lerr" \in DOMAIN first
             THEN IF first.lerr.type = "dict" /\ "err" \in DOMAIN first.lerr
                  THEN [exc |-> lanzar_excepcion(first.lerr.err[1].des), ret |-> "None"]
                  ELSE [exc |-> lanzar_excepcion(first.lerr.items[1].des), ret |-> "None"]
             ELSE [exc |-> NoExc, ret |-> "True"]
    ELSE [exc |-> NoExc, ret |-> "None"]

\* A classifier that reports the last error of the list, not the first.
comprobar_errores_mut(respuesta) ==
    IF Len(respuesta) > 0
    THEN LET first == respuesta[1].val
         IN  IF ~IsNone(first) /\ "lerr" \in DOMAIN first
             THEN IF first.lerr.type = "dict" /\ "err" \in DOMAIN first.lerr
                  THEN [exc |-> lanzar_excepcion(first.lerr.err[Len(first.lerr.err)].des),
                        ret |-> "None"]
                  ELSE [exc |-> lanzar_excepcion(first.lerr.items[Len(first.lerr.items)].des),
                        ret |-> "None"]
             ELSE [exc |-> NoExc, ret |-> "True"]
    ELSE [exc |-> NoExc, ret |-> "None"]

\* ret is the returned value ("True" or "None") when nothing is raised.
comprobar_errores(respuesta) ==
    IF Len(respuesta) > 0
    THEN LET first == respuesta[1].val
         IN  IF ~IsNone(first) /\ "lerr" \in DOMAIN first
             THEN IF first.lerr.type = "dict" /\ "err" \in DOMAIN first.lerr
                  THEN [exc |-> lanzar_excepcion(first.lerr.err[1].des), ret |-> "None"]
                  ELSE [exc |-> lanzar_excepcion(first.lerr.items[1].des), ret |-> "None"]
             ELSE [exc |-> NoExc, ret |-> "True"]
    ELSE [exc |-> NoExc, ret |-> "None"]

\* info_cadastre.get(k, {}).get("control", {}).get("cudnp", 1); ok is FALSE for
\* the AttributeError of .get on a None value.
read_cudnp(info_cadastre, k) ==
    IF ~HasKey(info_cadastre, k) THEN [ok |-> TRUE, v |-> 1]
    ELSE LET r == DictGet(info_cadastre, k)
         IN  IF IsNone(r) THEN [ok |-> FALSE, v |-> 0]
             ELSE IF HasPath(r, <<"control", "cudnp">>)
                  THEN [ok |-> TRUE, v |-> r.control.cudnp]
                  ELSE [ok |-> TRUE, v |-> 1]

\* d.get(k) of a str leaf: NONE when the key is absent.
GetStr(d, k) == IF k \in DOMAIN d THEN d[k] ELSE NONE

----------------------------------------------------------------------------
(* The geography service *)

\* A coordinate, as the token the service sends.
Coords == { "0", "1" }

\* gml:posList after .split(' '): an empty text splits into one empty token.
PosLists(maxVals) == { <<"">> } \cup SeqsOf(Coords, 1, maxVals)

\* The cp:CadastralParcel element: the reference point (gml:pos, split), the
\* exterior ring (gml:posList, split) and the area value (its characters).
ParcelFeatures(maxVals) ==
    { [referencePoint |-> <<"0", "1">>, geometry |-> pl, areaValue |-> <<"5", "0">>] :
        pl \in PosLists(maxVals) }
    \cup { [referencePoint |-> <<"">>, geometry |-> <<"0", "1">>, areaValue |-> <<"5", "0">>],
           [geometry |-> <<"0", "1">>, areaValue |-> <<"5", "0">>],
           [referencePoint |-> <<"0", "1">>, areaValue |-> <<"5", "0">>],
           [referencePoint |-> <<"0", "1">>, geometry |-> <<"0", "1">>] }

GeometryContents(maxVals) ==
    OtherContents
        \cup { [kind |-> "xml", doc |-> [ExceptionReport |-> "not found"]] }
        \cup { [kind |-> "xml",
                doc |-> [FeatureCollection |-> [member |-> [CadastralParcel |-> f]]]] :
                 f \in ParcelFeatures(maxVals) }

\* The answer of the sketch-image endpoint: its final URL, or no answer.
CroquisAnswers == { [kind |-> "ok", url |-> "croquis"], [kind |-> "transport_error"] }

----------------------------------------------------------------------------
(* ParcelaCatastral *)

ESC == "ErrorServidorCatastro"

NewParcela == [class |-> "ParcelaCatastral"]

\* The result of a step of the constructor: the exception raised (or NoExc),
\* the object as the step leaves it, and where the constructor goes on.
Fail(self_, exc) == [exc |-> exc, self |-> self_, next |-> "done"]
Go(self_, next) == [exc |-> NoExc, self |-> self_, next |-> next]

\* A request: the class whose method issues it, the service, and the parameters
\* refcat and srsname when it has them.
Req(by, svc, refcat, srsname) ==
    [by |-> by, svc |-> svc, refcat |-> refcat, srsname |-> srsname]

\* A constructor that keeps the identifier the caller passed.
canonical_rc_mut(self_, result) == self_.rc

\* ''.join(result.get('bico').get('bi').get('idbi').get('rc').values())
canonical_rc(self_, result) == Join(At(result, <<"bico", "bi", "idbi", "rc">>))

\* A constructor that tolerates two matches.
is_ambiguous_mut(cudnp) == cudnp > 2

\* if cudnp > 1 (lines 109, 152)
is_ambiguous(cudnp) == cudnp > 1

\* A constructor that lets the error of json.loads through.
not_json_error_mut == Exc("JSONDecodeError", "")

\* except: raise ErrorServidorCatastro("El servidor no devuelve un JSON. ...")
not_json_error == Exc(ESC, MSG_NOT_JSON)

\* __create_from_rc, from the answer of Consulta_DNPRC to the sketch request.
create_from_rc_decode(self_, content) ==
    IF content.kind = "transport_error" THEN Fail(self_, Exc("ConnectionError", ""))
    ELSE IF content.kind = "empty" THEN Fail(self_, Exc(ESC, MSG_EMPTY))
    ELSE IF content.kind = "text" THEN Fail(self_, not_json_error)
    ELSE
    LET info_cadastre == content.doc
        ce == comprobar_errores(info_cadastre)
        cudnp == read_cudnp(info_cadastre, K_DNPRC)
        result == DictGet(info_cadastre, K_DNPRC)
    IN  IF ce.exc.status = "raised" THEN Fail(self_, ce.exc)
        ELSE IF ce.ret # "True" THEN Go(self_, "return")
        ELSE IF ~cudnp.ok THEN Fail(self_, Exc("AttributeError", ""))
        ELSE IF is_ambiguous(cudnp.v) THEN Fail(self_, Exc(ESC, MSG_AMBIGUOUS))
        ELSE IF ~HasPath(result, <<"bico", "bi", "idbi", "rc">>)
             THEN Fail(self_, Exc("AttributeError", ""))
        ELSE Go(SetAttr(self_, "rc", canonical_rc(self_, result)), "croquis")

\* A constructor that takes every record not coded "UR" for a rustic one.
tipo_of_mut(idbi) == IF GetStr(idbi, "cn") = "UR" THEN "Urbano" ELSE "Rústico"

\* 'Rústico' if ...idbi.get('cn') == 'RU' else 'Urbano'
tipo_of(idbi) == IF GetStr(idbi, "cn") = "RU" THEN "Rústico" ELSE "Urbano"

\* The Urbano fields (lines 118-121).
set_urbano(self_, bi) ==
    LET dir == At(bi, <<"dt", "locs", "lous", "lourb", "dir">>)
        s1 == SetAttr(self_, "calle", GetStr(dir, "tv") \o " " \o GetStr(dir, "nv"))
        s2 == SetAttr(s1, "numero", GetStr(dir, "pnp"))
        s3 == SetAttr(s2, "antiguedad", GetStr(bi.debi, "ant"))
    IN  SetAttr(s3, "uso", GetStr(bi.debi, "luso"))

\* A constructor that derives the identifier again, from the polygon and the
\* parcel number, once it has read the Rústico fields.
set_rustico_mut(self_, bi) ==
    LET lorus == At(bi, <<"dt", "locs", "lors", "lorus">>)
        s1 == SetAttr(self_, "parcela", GetStr(lorus.cpp, "cpa"))
        s2 == SetAttr(s1, "poligono", GetStr(lorus.cpp, "cpo"))
        s3 == SetAttr(s2, "nombre_paraje", GetStr(lorus, "npa"))
    IN  SetAttr(s3, "rc", s3.poligono \o s3.parcela)

\* The Rústico fields (lines 123-125).
set_rustico(self_, bi) ==
    LET lorus == At(bi, <<"dt", "locs", "lors", "lorus">>)
        s1 == SetAttr(self_, "parcela", GetStr(lorus.cpp, "cpa"))
        s2 == SetAttr(s1, "poligono", GetStr(lorus.cpp, "cpo"))
    IN  SetAttr(s2, "nombre_paraje", GetStr(lorus, "npa"))

\* __create_regions: the list of regions, or the TypeError of iterating None
\* when the record has no 'lcons' (Urbano) or no 'lspr' (Rústico).
create_regions(self_, info_cadastre) ==
    LET bico == info_cadastre[1].val.bico
        key == IF self_.tipo = "Urbano" THEN "lcons" ELSE "lspr"
        iterator == bico[key]
    IN  IF key \notin DOMAIN bico
        THEN Fail(SetAttr(self_, "regiones", <<>>), Exc("TypeError", ""))
        ELSE Go(SetAttr(self_, "regiones",
                    [i \in DOMAIN iterator |->
                        IF self_.tipo = "Urbano"
                        THEN [descripcion |-> GetStr(iterator[i], "lcd"),
                              superficie |-> iterator[i].dfcons.stl]
                        ELSE [descripcion |-> GetStr(iterator[i].dspr, "dcc"),
                              superficie |-> iterator[i].dspr.ssp]]),
                "geometry")

\* __create_from_rc, from the answer of the sketch request to the geometry
\* request (lines 113-127).
create_from_rc_fields(self_, info_cadastre, croquis) ==
    IF croquis.kind = "transport_error" THEN Fail(self_, Exc("ConnectionError", ""))
    ELSE
    LET bi == DictGet(info_cadastre, K_DNPRC).bico.bi
        s1 == SetAttr(self_, "url_croquis", croquis.url)
    IN  IF ~HasPath(bi, <<"dt">>) THEN Fail(s1, Exc("AttributeError", ""))
        ELSE
        LET s2 == SetAttr(s1, "municipio", GetStr(bi.dt, "nm"))
            s3 == SetAttr(s2, "provincia", GetStr(bi.dt, "np"))
            s4 == SetAttr(s3, "tipo", tipo_of(bi.idbi))
        IN  IF s4.tipo = "Urbano"
            THEN IF HasPath(bi, <<"dt", "locs", "lous", "lourb", "dir">>) /\ HasPath(bi, <<"debi">>)
                 THEN create_regions(set_urbano(s4, bi), info_cadastre)
                 ELSE Fail(s4, Exc("AttributeError", ""))
            ELSE IF HasPath(bi, <<"dt", "locs", "lors", "lorus", "cpp">>)
                 THEN create_regions(set_rustico(s4, bi), info_cadastre)
                 ELSE Fail(s4, Exc("AttributeError", ""))

\* A resolver that reads the ring with the axes the other way round.
ring_of_mut(parcel_geometry) ==
    [idx \in 1..(Len(parcel_geometry) \div 2) |->
        [x |-> parcel_geometry[2 * idx - 1], y |-> parcel_geometry[2 * idx]]]

\* The boundary ring from the flat list: idx-th point from values 2*idx and
\* 2*idx+1 (0-based), for idx in range(len // 2).
ring_of(parcel_geometry) ==
    [idx \in 1..(Len(parcel_geometry) \div 2) |->
        [x |-> parcel_geometry[2 * idx], y |-> parcel_geometry[2 * idx - 1]]]

\* sum(float(region.get('superficie')) for region in self.regiones)
sum_superficie(regiones) ==
    SumSeq([i \in DOMAIN regiones |-> ParseFloat(regiones[i].superficie)])

\* line 130
superficie_construida_of(self_) == sum_superficie(self_.regiones)

\* A constructor that stores the area of the geography service as superficie.
superficie_of_mut(self_) == self_.superficie_total

\* line 131
superficie_of(self_) == sum_superficie(self_.regiones)

\* __create_geometry on the answer of the geography service, then lines 130-131.
create_geometry(self_, content) ==
    IF content.kind = "transport_error" THEN Fail(self_, Exc("ConnectionError", ""))
    ELSE IF content.kind \in {"empty", "text"} THEN Fail(self_, Exc("ExpatError", ""))
    ELSE
    LET geometry == content.doc
        path == <<"FeatureCollection", "member", "CadastralParcel">>
    IN  IF ~HasPath(geometry, path \o <<"referencePoint">>)
        THEN Fail(self_, Exc("AttributeError", ""))
        ELSE
        LET parcel == At(geometry, path)
            geoposition == parcel.referencePoint
        IN  IF Len(geoposition) < 2 THEN Fail(self_, Exc("IndexError", ""))
            ELSE
            LET s1 == SetAttr(self_, "centroide",
                              [x |-> geoposition[2], y |-> geoposition[1]])
            IN  IF "geometry" \notin DOMAIN parcel THEN Fail(s1, Exc("AttributeError", ""))
                ELSE
                LET s2 == SetAttr(s1, "geometria", ring_of(parcel.geometry))
                IN  IF "areaValue" \notin DOMAIN parcel
                    THEN Fail(s2, Exc("AttributeError", ""))
                    ELSE
                    LET s3 == SetAttr(s2, "superficie_total", ParseFloat(parcel.areaValue))
                        s4 == SetAttr(s3, "superficie_construida", superficie_construida_of(s3))
                    IN  Go(SetAttr(s4, "superficie", superficie_of(s4)), "return")

\* __create_from_parcel on the answer of Consulta_DNPPP (lines 144-158).  The
\* handler of a body that is no JSON formats req1.content, and the method has
\* no req1: the NameError leaves in its place.
create_from_parcel(self_, content) ==
    IF content.kind = "transport_error" THEN Fail(self_, Exc("ConnectionError", ""))
    ELSE IF content.kind = "empty" THEN Fail(self_, Exc(ESC, MSG_EMPTY))
    ELSE IF content.kind = "text" THEN Fail(self_, Exc("NameError", "req1"))
    ELSE
    LET info_cadastre == content.doc
        ce == comprobar_errores(info_cadastre)
        cudnp == read_cudnp(info_cadastre, K_DNPPP)
        result == DictGet(info_cadastre, K_DNPPP)
    IN  IF ce.exc.status = "raised" THEN Fail(self_, ce.exc)
        ELSE IF ce.ret # "True" THEN Go(self_, "return")
        ELSE IF ~cudnp.ok THEN Fail(self_, Exc("AttributeError", ""))
        ELSE IF is_ambiguous(cudnp.v) THEN Fail(self_, Exc(ESC, MSG_AMBIGUOUS))
        ELSE IF ~HasPath(result, <<"bico", "bi", "idbi", "rc">>)
             THEN Fail(self_, Exc("AttributeError", ""))
        ELSE Go(SetAttr(self_, "rc", Join(At(result, <<"bico", "bi", "idbi", "rc">>))),
                "__create_from_rc")

\* The numbers the service lists for the street: numerero.nump[*].num.pnp
valid_numbers(result) ==
    [i \in DOMAIN result.numerero.nump |-> result.numerero.nump[i].num.pnp]

\* str(list) of a list of str: ['1', '3']
RECURSIVE ReprItems(_)
ReprItems(l) ==
    IF l = <<>> THEN ""
    ELSE IF Len(l) = 1 THEN "'" \o l[1] \o "'"
    ELSE "'" \o l[1] \o "', " \o ReprItems(Tail(l))

\* f"Ese número no existe. Prueba con alguno de estos: {[...]}" (line 198)
no_number_message(result) ==
    MSG_NO_NUMBER \o ". Prueba con alguno de estos: [" \o ReprItems(valid_numbers(result)) \o "]"

\* The elif and else of __create_from_address (lines 196-200), reached when the
\* first condition is false; the body is decoded again.
address_not_usable(self_, content) ==
    IF content.kind \in {"empty", "text"} THEN Fail(self_, Exc("JSONDecodeError", ""))
    ELSE
    LET result == DictGet(content.doc, K_DNPLOC)
    IN  IF IsNone(result) THEN Fail(self_, Exc("TypeError", ""))
        ELSE IF "lerr" \notin DOMAIN result THEN Fail(self_, Exc(ESC, MSG_EMPTY))
        ELSE IF result.lerr.type = "dict" THEN Fail(self_, Exc("KeyError", "0"))
        ELSE IF result.lerr.items[1].cod = "43"
             THEN IF HasPath(result, <<"numerero", "nump">>)
                  THEN Fail(self_, Exc("Exception", no_number_message(result)))
                  ELSE Fail(self_, Exc("AttributeError", ""))
             ELSE Fail(self_, Exc(ESC, MSG_EMPTY))

\* __create_from_address on the answer of Consulta_DNPLOC (lines 181-200).
\* When the first condition holds, the try block decodes req1.content; the
\* method has no req1, and the handler formats req1.content again: a NameError
\* leaves the method before the counter or the identifier is read.
create_from_address(self_, req) ==
    LET content == req.content
    IN  IF content.kind = "transport_error" THEN Fail(self_, Exc("ConnectionError", ""))
        ELSE IF req.status_code = 200 /\ content.kind # "empty"
        THEN IF content.kind = "text" THEN Fail(self_, Exc("JSONDecodeError", ""))
             ELSE LET ce == comprobar_errores(content.doc)
                  IN  IF ce.exc.status = "raised" THEN Fail(self_, ce.exc)
                      ELSE IF ce.ret = "True" THEN Fail(self_, Exc("NameError", "req1"))
                      ELSE address_not_usable(self_, content)
        ELSE address_not_usable(self_, content)

\* utils.listar_sistemas_referencia
listar_sistemas_referencia == { "EPSG:4326", "EPSG:25830" }

DefaultProjection == "EPSG:4326"

\* A constructor that reports insufficient input with the base Exception.
insufficient_input_mut == Exc("Exception", MSG_INSUFFICIENT)

\* raise ValueError("No se ha proporcionado suficiente información ...")
insufficient_input == Exc("ValueError", MSG_INSUFFICIENT)

\* The strategy by priority (lines 209-225).  args is what the chosen method
\* is called with.
choose_strategy(self_, a) ==
    IF Truthy(a.rc)
    THEN [exc |-> NoExc, self |-> SetAttr(self_, "rc", a.rc), next |-> "__create_from_rc",
          args |-> [rc |-> a.rc, projection |-> a.projection]]
    ELSE IF Truthy(a.provincia) /\ Truthy(a.municipio) /\ Truthy(a.poligono) /\ Truthy(a.parcela)
    THEN [exc |-> NoExc,
          self |-> SetAttr(SetAttr(SetAttr(SetAttr(self_, "provincia", a.provincia),
                      "municipio", a.municipio), "poligono", a.poligono), "parcela", a.parcela),
          next |-> "__create_from_parcel",
          args |-> [provincia |-> a.provincia, municipio |-> a.municipio,
                    poligono |-> a.poligono, parcela |-> a.parcela,
                    projection |-> a.projection]]
    ELSE IF Truthy(a.provincia) /\ Truthy(a.municipio) /\ Truthy(a.tipo_via)
            /\ Truthy(a.calle) /\ Truthy(a.numero)
    THEN [exc |-> NoExc,
          self |-> SetAttr(SetAttr(SetAttr(SetAttr(self_, "provincia", a.provincia),
                      "municipio", a.municipio), "calle", a.calle), "numero", a.numero),
          next |-> "__create_from_address",
          args |-> [provincia |-> a.provincia, municipio |-> a.municipio,
                    tipo_via |-> a.tipo_via, calle |-> a.calle, numero |-> a.numero,
                    projection |-> a.projection]]
    ELSE [exc |-> insufficient_input, self |-> self_, next |-> "done", args |-> a]

\* raise ValueError(f"El sistema de referencia {projection} no existe. ...")
unsupported_projection(self_, a) ==
    [exc |-> Exc("ValueError", MSG_PROJECTION), self |-> self_, next |-> "done", args |-> a]

\* A constructor that looks at the projection only once a strategy is chosen.
parcela_init_mut(self_, a) ==
    LET r == choose_strategy(self_, a)
    IN  IF r.exc.status = "raised" THEN r
        ELSE IF a.projection \notin listar_sistemas_referencia
        THEN unsupported_projection(self_, a)
        ELSE r

\* ParcelaCatastral.__init__ (lines 207-225): the projection check, then the
\* strategy.
parcela_init(self_, a) ==
    IF a.projection \notin listar_sistemas_referencia
    THEN unsupported_projection(self_, a)
    ELSE choose_strategy(self_, a)

----------------------------------------------------------------------------
(* The derived properties *)

CoordVal(c) == IF c = "" THEN 0 ELSE DigitVal(c)

\* utils.lat_lon_from_coords_dict
lat_lon_from_coords_dict(p) == <<CoordVal(p.y), CoordVal(p.x)>>

Abs(n) == IF n < 0 THEN -n ELSE n

\* utils.distancia_entre_dos_puntos_geograficos: a distance between two
\* (lat, lon) points; the grid distance stands for the great-circle one.
distancia_entre_dos_puntos_geograficos(a, b) == Abs(a[1] - b[1]) + Abs(a[2] - b[2])

\* An edge paired with the point after it, wrapping the last to the first.
idx_0_of_mut(idx, len) == IF idx = len THEN 1 ELSE idx + 1

\* The index of the point an edge starts from (line 235).
idx_0_of(idx, len) == IF idx = 1 THEN len ELSE idx - 1

\* The property distancias_aristas: a list, None, or the AttributeError of
\* reading an attribute that was never assigned.
distancias_aristas(self_) ==
    IF ~HasAttr(self_, "geometria") THEN [kind |-> "raise", type |-> "AttributeError", v |-> <<>>]
    ELSE IF self_.geometria # <<>>
    THEN [kind |-> "value", type |-> "",
          v |-> [idx \in 1..Len(self_.geometria) |->
                    distancia_entre_dos_puntos_geograficos(
                        lat_lon_from_coords_dict(
                            self_.geometria[idx_0_of(idx, Len(self_.geometria))]),
                        lat_lon_from_coords_dict(self_.geometria[idx]))]]
    ELSE [kind |-> "None", type |-> "", v |-> <<>>]

\* The property perimetro.
perimetro(self_) ==
    LET distancias == distancias_aristas(self_)
    IN  IF distancias.kind = "raise" THEN [kind |-> "raise", type |-> distancias.type, v |-> 0]
        ELSE IF distancias.kind = "value" /\ distancias.v # <<>>
        THEN [kind |-> "value", type |-> "", v |-> SumSeq(distancias.v)]
        ELSE [kind |-> "None", type |-> "", v |-> 0]

NotRead == [done |-> FALSE]

----------------------------------------------------------------------------
(* MetaParcela *)

NewMeta ==
    [obj |-> [class |-> "MetaParcela"], strategy |-> "", info |-> <<>>, idx |-> 0, num |-> 0]

\* The arguments of ParcelaCatastral(rc=rc): every other parameter at its default.
OnlyRC(rc) ==
    [rc |-> rc, provincia |-> NONE, municipio |-> NONE, poligono |-> NONE, parcela |-> NONE,
     tipo_via |-> NONE, calle |-> NONE, numero |-> NONE, projection |-> DefaultProjection]

\* Where the constructor call is after a step: the outcome so far, both
\* objects, the next statement and the arguments of the method that runs it.
Ctl(outcome_, self_, meta_, pc_, args_) ==
    [outcome |-> outcome_, self |-> self_, meta |-> meta_, pc |-> pc_, args |-> args_]

\* ParcelaCatastral(rc=rc) called from a MetaParcela method: a new object, and
\* its __init__ up to the first request.
nested_call(meta_, rc) ==
    LET r == parcela_init(NewParcela, OnlyRC(rc))
    IN  IF r.exc.status = "raised" THEN Ctl(r.exc, r.self, meta_, "done", r.args)
        ELSE Ctl(Running, r.self, meta_, r.next, r.args)

\* ''.join(result.get('lrcdnp').get('rcdnp')[idx].get('rc').values()), idx
\* 0-based; the AttributeError of a missing umbrella list, the IndexError of a
\* short one.
umbrella_rc(result, idx) ==
    IF ~HasPath(result, <<"lrcdnp", "rcdnp">>) THEN [exc |-> Exc("AttributeError", ""), rc |-> ""]
    ELSE IF idx + 1 > Len(result.lrcdnp.rcdnp) THEN [exc |-> Exc("IndexError", ""), rc |-> ""]
    ELSE [exc |-> NoExc, rc |-> Join(result.lrcdnp.rcdnp[idx + 1].rc)]

\* The loop of __create_from_rc (lines 522-523) only assigns rc; the value the
\* loop leaves in rc is the last identifier, or the argument when it never ran.
RECURSIVE rc_after_loop(_, _, _, _)
rc_after_loop(result, idx, num, rc) ==
    IF idx >= num THEN [exc |-> NoExc, rc |-> rc]
    ELSE LET u == umbrella_rc(result, idx)
         IN  IF u.exc.status = "raised" THEN u
             ELSE rc_after_loop(result, idx + 1, num, u.rc)

\* One pass of the loop of __create_from_parcel and __create_from_address
\* (lines 543-545, 574-576) at index meta_.idx: the next nested call, or the
\* end of the loop and of the constructor.
meta_loop(self_, meta_, k) ==
    IF meta_.idx >= meta_.num THEN Ctl(Returned, self_, meta_, "done", args)
    ELSE LET u == umbrella_rc(DictGet(meta_.info, k), meta_.idx)
         IN  IF u.exc.status = "raised" THEN Ctl(u.exc, self_, meta_, "done", args)
             ELSE nested_call(meta_, u.rc)

StrategyKey(strategy) == IF strategy = "parcel" THEN K_DNPPP ELSE K_DNPLOC

\* self.parcelas.append(<the parcel the nested constructor returned>)
append_parcela(meta_, parcel) ==
    [meta_ EXCEPT !.obj = SetAttr(@, "parcelas", Append(@.parcelas, parcel))]

\* The ParcelaCatastral constructor returns self_: to the caller, or to the
\* MetaParcela method that called it, which appends the parcel and goes on.
parcela_returns(self_) ==
    IF cls = "ParcelaCatastral" THEN Ctl(Returned, self_, meta, "done", args)
    ELSE LET m == append_parcela(meta, self_)
         IN  IF m.strategy = "rc" THEN Ctl(Returned, self_, m, "done", args)
             ELSE meta_loop(self_, [m EXCEPT !.idx = @ + 1], StrategyKey(m.strategy))

\* A decoded answer in a MetaParcela method once the classifier returned True:
\* self.parcelas = [], the counter, and the loop.
meta_collect(meta_, strategy, info_cadastre, rc) ==
    LET k == IF strategy = "rc" THEN K_DNPRC ELSE StrategyKey(strategy)
        cudnp == read_cudnp(info_cadastre, k)
        m == [meta_ EXCEPT !.obj = SetAttr(@, "parcelas", <<>>), !.strategy = strategy,
                           !.info = info_cadastre, !.idx = 0,
                           !.num = IF cudnp.ok THEN cudnp.v ELSE 0]
    IN  IF ~cudnp.ok THEN Ctl(Exc("AttributeError", ""), self, m, "done", args)
        ELSE IF strategy = "rc"
        THEN LET l == rc_after_loop(DictGet(info_cadastre, k), 0, cudnp.v, rc)
             IN  IF l.exc.status = "raised" THEN Ctl(l.exc, self, m, "done", args)
                 ELSE nested_call(m, l.rc)
        ELSE meta_loop(self, m, k)

\* MetaParcela.__create_from_rc and __create_from_parcel on the answer of the
\* service (lines 517-526, 538-547); json.loads is not guarded.
meta_from_answer(meta_, strategy, content, rc) ==
    IF content.kind = "transport_error" THEN Ctl(Exc("ConnectionError", ""), self, meta_, "done", args)
    ELSE IF content.kind = "empty" THEN Ctl(Exc(ESC, MSG_EMPTY), self, meta_, "done", args)
    ELSE IF content.kind = "text" THEN Ctl(Exc("JSONDecodeError", ""), self, meta_, "done", args)
    ELSE LET ce == comprobar_errores(content.doc)
         IN  IF ce.exc.status = "raised" THEN Ctl(ce.exc, self, meta_, "done", args)
             ELSE IF ce.ret # "True" THEN Ctl(Returned, self, meta_, "done", args)
             ELSE meta_collect(meta_, strategy, content.doc, rc)

\* MetaParcela.__create_from_address on the answer of Consulta_DNPLOC (lines
\* 570-578).
meta_from_address(meta_, req) ==
    LET content == req.content
    IN  IF content.kind = "transport_error"
        THEN Ctl(Exc("ConnectionError", ""), self, meta_, "done", args)
        ELSE IF req.status_code = 200 /\ content.kind # "empty"
        THEN IF content.kind = "text" THEN Ctl(Exc("JSONDecodeError", ""), self, meta_, "done", args)
             ELSE LET ce == comprobar_errores(content.doc)
                  IN  IF ce.exc.status = "raised" THEN Ctl(ce.exc, self, meta_, "done", args)
                      ELSE IF ce.ret = "True" THEN meta_collect(meta_, "address", content.doc, NONE)
                      ELSE Ctl(Exc(ESC, MSG_EMPTY), self, meta_, "done", args)
        ELSE Ctl(Exc(ESC, MSG_EMPTY), self, meta_, "done", args)

MSG_UNEXPECTED_KEYWORD == "__init__() got an unexpected keyword argument 'projection'"

\* The parameters of MetaParcela.__init__ (line 583).
MetaParams ==
    { "rc", "provincia", "municipio", "poligono", "parcela", "tipo_via", "calle", "numero" }

\* Binding the keywords of the call to the parameters of line 583: a keyword
\* that is no parameter is a TypeError, raised before the body runs.
meta_bind(meta_, a) ==
    IF \E k \in DOMAIN a \ MetaParams : a[k] # NONE
    THEN Ctl(Exc("TypeError", MSG_UNEXPECTED_KEYWORD), self, meta_, "done", a)
    ELSE Ctl(Running, self, meta_, "MetaParcela.__init__", [k \in MetaParams |-> a[k]])

\* MetaParcela.__init__ (lines 584-600).
meta_init(meta_, a) ==
    LET o == meta_.obj
    IN  IF Truthy(a.rc)
        THEN Ctl(Running, self, [meta_ EXCEPT !.obj = SetAttr(o, "rc", a.rc)],
                 "MetaParcela.__create_from_rc", [rc |-> a.rc])
        ELSE IF Truthy(a.provincia) /\ Truthy(a.municipio) /\ Truthy(a.poligono) /\ Truthy(a.parcela)
        THEN Ctl(Running, self,
                 [meta_ EXCEPT !.obj = SetAttr(SetAttr(SetAttr(SetAttr(o, "provincia", a.provincia),
                        "municipio", a.municipio), "poligono", a.poligono), "parcela", a.parcela)],
                 "MetaParcela.__create_from_parcel",
                 [provincia |-> a.provincia, municipio |-> a.municipio,
                  poligono |-> a.poligono, parcela |-> a.parcela])
        ELSE IF Truthy(a.provincia) /\ Truthy(a.municipio) /\ Truthy(a.tipo_via)
                /\ Truthy(a.calle) /\ Truthy(a.numero)
        THEN Ctl(Running, self,
                 [meta_ EXCEPT !.obj = SetAttr(SetAttr(SetAttr(SetAttr(o, "provincia", a.provincia),
                        "municipio", a.municipio), "calle", a.calle), "numero", a.numero)],
                 "MetaParcela.__create_from_address",
                 [provincia |-> a.provincia, municipio |-> a.municipio,
                  tipo_via |-> a.tipo_via, calle |-> a.calle, numero |-> a.numero])
        ELSE Ctl(insufficient_input, self, meta_, "done", a)

----------------------------------------------------------------------------
(* What the code does with an answer *)

\* A descriptive-record or code-lookup answer in __create_from_rc and
\* __create_from_parcel of both classes (lines 101-107, 144-150, 517-521,
\* 538-542): json.loads, comprobar_errores, and the first .get of a field
\* when the classifier returned True.
ops_of_lookup(content) ==
    IF content.kind \in {"transport_error", "empty"} THEN <<>>
    ELSE IF content.kind = "text" THEN <<"decode">>
    ELSE LET ce == comprobar_errores(content.doc)
         IN  <<"decode", "classify">>
                \o (IF ce.exc.status # "raised" /\ ce.ret = "True" THEN <<"extract">> ELSE <<>>)

\* The second decoding of the elif of line 196 and its .get of the result.
ops_of_elif(content) ==
    IF content.kind \in {"empty", "text"} THEN <<"decode">> ELSE <<"decode", "extract">>

\* An address-lookup answer in ParcelaCatastral.__create_from_address (lines
\* 181-200): req.json() and comprobar_errores only when the status is 200 and
\* the body is not empty; json.loads(req1.content) never decodes anything.
ops_of_address(req) ==
    LET content == req.content
    IN  IF content.kind = "transport_error" THEN <<>>
        ELSE IF req.status_code = 200 /\ content.kind # "empty"
        THEN IF content.kind = "text" THEN <<"decode">>
             ELSE LET ce == comprobar_errores(content.doc)
                  IN  IF ce.exc.status = "raised" \/ ce.ret = "True"
                      THEN <<"decode", "classify">>
                      ELSE <<"decode", "classify">> \o ops_of_elif(content)
        ELSE ops_of_elif(content)

\* An address-lookup answer in MetaParcela.__create_from_address (lines
\* 570-578).
ops_of_meta_address(req) ==
    LET content == req.content
    IN  IF content.kind = "transport_error" THEN <<>>
        ELSE IF req.status_code = 200 /\ content.kind # "empty"
        THEN IF content.kind = "text" THEN <<"decode">>
             ELSE LET ce == comprobar_errores(content.doc)
                  IN  <<"decode", "classify">>
                        \o (IF ce.exc.status # "raised" /\ ce.ret = "True"
                            THEN <<"decode", "extract">> ELSE <<>>)
        ELSE <<>>

\* The answer of the geography service in __create_geometry (lines 81-82).
ops_of_geometry(content) ==
    IF content.kind = "transport_error" THEN <<>>
    ELSE IF content.kind \in {"empty", "text"} THEN <<"parse">>
    ELSE <<"parse", "extract">>

----------------------------------------------------------------------------
(* What each request may be answered *)

\* The house numbers of a street, sent with a "number not found" error.
Numerero == [nump |-> <<[num |-> [pnp |-> "1"]], [num |-> [pnp |-> "3"]]>>]

NumberErrors == { [lerr |-> l, numerero |-> Numerero] : l \in Lerrs }

\* Answers to a code or address lookup: a single match, a multi-match with
\* its umbrella list, or both keys at once.
CodePayloads ==
    LET B == { Bico("RU", "rus", <<>>, parts) : parts \in RCParts }
        L == Lrcdnps(MaxCudnp)
    IN  { [bico |-> b] : b \in B }
        \cup { [control |-> [cudnp |-> n], bico |-> b] : n \in 0..MaxCudnp, b \in B }
        \cup { [control |-> [cudnp |-> n], lrcdnp |-> l] : n \in 0..MaxCudnp, l \in L }
        \cup { [control |-> [cudnp |-> 1], bico |-> b, lrcdnp |-> l] : b \in B, l \in Lrcdnps(1) }

\* Descriptive records of the parcels a MetaParcela resolves.
NestedPayloads ==
    { [bico |-> Bico("UR", "urb", << <<"3">> >>, parts)] : parts \in RCParts }
        \cup { [bico |-> Bico("RU", "rus", <<>>, <<"15", "VK">>)],
               [control |-> [cudnp |-> 2], bico |-> Bico("RU", "rus", <<>>, <<"15", "VK">>)] }

\* The parcel of the running step is one a MetaParcela resolves.
Nested == cls = "MetaParcela"

DNPRCContents ==
    OtherContents \cup
        JsonContents(K_DNPRC, IF Nested THEN NestedPayloads ELSE Payloads(MaxRegions, MaxCudnp))

GeometryAnswers == GeometryContents(IF Nested THEN 0 ELSE MaxPosVals)

LocAnswers ==
    { [status_code |-> 0, content |-> [kind |-> "transport_error"]] }
        \cup { [status_code |-> st, content |-> c] :
                 st \in {200, 404},
                 c \in {[kind |-> "empty"], [kind |-> "text"]}
                        \cup JsonContents(K_DNPLOC, CodePayloads \cup NumberErrors) }

----------------------------------------------------------------------------
(* The state machine *)

ArgValues ==
    [rc : {NONE, "", "15VK"}, provincia : {NONE, "Madrid"}, municipio : {NONE, "Getafe"},
     poligono : {NONE, "23"}, parcela : {NONE, "149"}, tipo_via : {NONE, "CL"},
     calle : {NONE, "Mayor"}, numero : {NONE, "7"}]

\* The keyword arguments of a call.  ParcelaCatastral takes a projection;
\* a caller of MetaParcela passes one (NONE: the keyword is not passed).
CallArgs(c) ==
    { [f \in DOMAIN a \cup {"projection"} |-> IF f = "projection" THEN p ELSE a[f]] :
        a \in ArgValues,
        p \in IF c = "ParcelaCatastral" THEN listar_sistemas_referencia \cup {"EPSG:0"}
              ELSE {NONE, "EPSG:25830"} }

NoAnswer == [kind |-> "none"]

Init ==
    /\ cls \in {"ParcelaCatastral", "MetaParcela"}
    /\ args \in CallArgs(cls)
    /\ pc = IF cls = "MetaParcela" THEN "MetaParcela(...)" ELSE "ParcelaCatastral.__init__"
    /\ self = NewParcela
    /\ meta = NewMeta
    /\ info = <<>>
    /\ requests = <<>>
    /\ answer = NoAnswer
    /\ ops = <<>>
    /\ outcome = Running
    /\ reads = NotRead

Assign(c) ==
    /\ outcome' = c.outcome
    /\ self' = c.self
    /\ meta' = c.meta
    /\ pc' = c.pc
    /\ args' = c.args

\* A MetaParcela loop that skips an identifier whose parcel raised.
Lift_mut(r, a) ==
    IF r.exc.status = "raised"
    THEN IF cls = "MetaParcela" /\ meta.strategy \in {"parcel", "address"}
         THEN meta_loop(r.self, [meta EXCEPT !.idx = @ + 1], StrategyKey(meta.strategy))
         ELSE IF cls = "MetaParcela" /\ meta.strategy = "rc"
         THEN Ctl(Returned, r.self, meta, "done", args)
         ELSE Ctl(r.exc, r.self, meta, "done", args)
    ELSE IF r.next = "return" THEN parcela_returns(r.self)
    ELSE Ctl(Running, r.self, meta, r.next, a)

\* Where a step of ParcelaCatastral leaves the call; a is what the next method
\* is called with.
Lift(r, a) ==
    IF r.exc.status = "raised" THEN Ctl(r.exc, r.self, meta, "done", args)
    ELSE IF r.next = "return" THEN parcela_returns(r.self)
    ELSE Ctl(Running, r.self, meta, r.next, a)

ParcelaCatastral_init ==
    /\ pc = "ParcelaCatastral.__init__"
    /\ LET r == parcela_init(self, args) IN Assign(Lift(r, r.args))
    /\ UNCHANGED <<cls, info, requests, answer, ops, reads>>

Request_DNPRC ==
    /\ pc = "__create_from_rc"
    /\ \E content \in DNPRCContents :
        LET r == create_from_rc_decode(self, content)
        IN  /\ Assign(Lift(r, args))
            /\ info' = IF r.exc.status # "raised" /\ r.next = "croquis" THEN content.doc ELSE <<>>
            /\ answer' = content
            /\ ops' = ops_of_lookup(content)
    /\ requests' = Append(requests, Req("ParcelaCatastral", "Consulta_DNPRC", args.rc, ""))
    /\ UNCHANGED <<cls, reads>>

Request_Croquis ==
    /\ pc = "croquis"
    /\ \E croquis \in CroquisAnswers :
        /\ Assign(Lift(create_from_rc_fields(self, info, croquis), args))
        /\ answer' = croquis
        /\ ops' = <<>>
    /\ requests' = Append(requests, Req("ParcelaCatastral", "croquis", self.rc, ""))
    /\ UNCHANGED <<cls, info, reads>>

Request_Geometry ==
    /\ pc = "geometry"
    /\ \E content \in GeometryAnswers :
        /\ Assign(Lift(create_geometry(self, content), args))
        /\ answer' = content
        /\ ops' = ops_of_geometry(content)
    /\ requests' = Append(requests, Req("ParcelaCatastral", "GetParcel", self.rc, args.projection))
    /\ UNCHANGED <<cls, info, reads>>

Request_DNPPP ==
    /\ pc = "__create_from_parcel"
    /\ \E content \in OtherContents \cup JsonContents(K_DNPPP, CodePayloads) :
        LET r == create_from_parcel(self, content)
        IN  /\ Assign(Lift(r, [rc |-> GetStr(r.self, "rc"), projection |-> args.projection]))
            /\ answer' = content
            /\ ops' = ops_of_lookup(content)
    /\ requests' = Append(requests, Req("ParcelaCatastral", "Consulta_DNPPP", "", ""))
    /\ UNCHANGED <<cls, info, reads>>

\* Calle(municipio=Municipio(...), ...): the street-resolution collaborator
\* finds the street or does not (lines 162-171, 203-204).
Resolve_Calle ==
    /\ pc = "__create_from_address"
    /\ \E info_calle \in BOOLEAN :
        /\ IF info_calle
           THEN Assign(Ctl(Running, self, meta, "Consulta_DNPLOC", args))
           ELSE Assign(Ctl(Exc("Exception", MSG_NO_STREET), self, meta, "done", args))
        /\ answer' = [kind |-> "calle", found |-> info_calle]
        /\ ops' = <<>>
    /\ requests' = Append(requests, Req("ParcelaCatastral", "Calle", "", ""))
    /\ UNCHANGED <<cls, info, reads>>

Request_DNPLOC ==
    /\ pc = "Consulta_DNPLOC"
    /\ \E req \in LocAnswers :
        /\ Assign(Lift(create_from_address(self, req), args))
        /\ answer' = [kind |-> "http", status_code |-> req.status_code, content |-> req.content]
        /\ ops' = ops_of_address(req)
    /\ requests' = Append(requests, Req("ParcelaCatastral", "Consulta_DNPLOC", "", ""))
    /\ UNCHANGED <<cls, info, reads>>

\* The call MetaParcela(...) binds its keywords to the parameters of __init__.
MetaParcela_call ==
    /\ pc = "MetaParcela(...)"
    /\ Assign(meta_bind(meta, args))
    /\ UNCHANGED <<cls, info, requests, answer, ops, reads>>

MetaParcela_init ==
    /\ pc = "MetaParcela.__init__"
    /\ Assign(meta_init(meta, args))
    /\ UNCHANGED <<cls, info, requests, answer, ops, reads>>

Meta_Request_DNPRC ==
    /\ pc = "MetaParcela.__create_from_rc"
    /\ \E content \in OtherContents \cup JsonContents(K_DNPRC, CodePayloads) :
        /\ Assign(meta_from_answer(meta, "rc", content, args.rc))
        /\ answer' = content
        /\ ops' = ops_of_lookup(content)
    /\ requests' = Append(requests, Req("MetaParcela", "Consulta_DNPRC", args.rc, ""))
    /\ UNCHANGED <<cls, info, reads>>

Meta_Request_DNPPP ==
    /\ pc = "MetaParcela.__create_from_parcel"
    /\ \E content \in OtherContents \cup JsonContents(K_DNPPP, CodePayloads) :
        /\ Assign(meta_from_answer(meta, "parcel", content, NONE))
        /\ answer' = content
        /\ ops' = ops_of_lookup(content)
    /\ requests' = Append(requests, Req("MetaParcela", "Consulta_DNPPP", "", ""))
    /\ UNCHANGED <<cls, info, reads>>

Meta_Resolve_Calle ==
    /\ pc = "MetaParcela.__create_from_address"
    /\ \E info_calle \in BOOLEAN :
        /\ IF info_calle
           THEN Assign(Ctl(Running, self, meta, "MetaParcela.Consulta_DNPLOC", args))
           ELSE Assign(Ctl(Exc("Exception", MSG_NO_STREET), self, meta, "done", args))
        /\ answer' = [kind |-> "calle", found |-> info_calle]
        /\ ops' = <<>>
    /\ requests' = Append(requests, Req("MetaParcela", "Calle", "", ""))
    /\ UNCHANGED <<cls, info, reads>>

Meta_Request_DNPLOC ==
    /\ pc = "MetaParcela.Consulta_DNPLOC"
    /\ \E req \in LocAnswers :
        /\ Assign(meta_from_address(meta, req))
        /\ answer' = [kind |-> "http", status_code |-> req.status_code, content |-> req.content]
        /\ ops' = ops_of_meta_address(req)
    /\ requests' = Append(requests, Req("MetaParcela", "Consulta_DNPLOC", "", ""))
    /\ UNCHANGED <<cls, info, reads>>

\* The caller reads distancias_aristas and perimetro of the returned parcel.
Read_Derived ==
    /\ pc = "done"
    /\ cls = "ParcelaCatastral"
    /\ outcome.status = "returned"
    /\ reads = NotRead
    /\ reads' = [done |-> TRUE, distancias_aristas |-> distancias_aristas(self),
                 perimetro |-> perimetro(self)]
    /\ UNCHANGED <<cls, pc, args, self, meta, info, requests, answer, ops, outcome>>

Next ==
    \/ ParcelaCatastral_init
    \/ Request_DNPRC
    \/ Request_Croquis
    \/ Request_Geometry
    \/ Request_DNPPP
    \/ Resolve_Calle
    \/ Request_DNPLOC
    \/ MetaParcela_call
    \/ MetaParcela_init
    \/ Meta_Request_DNPRC
    \/ Meta_Request_DNPPP
    \/ Meta_Resolve_Calle
    \/ Meta_Request_DNPLOC
    \/ Read_Derived

Spec == Init /\ [][Next]_vars

----------------------------------------------------------------------------
(* Properties *)

\* The last request issued, and whether it is request svc of class by.
LastRequest == requests[Len(requests)]
LastIs(by, svc) ==
    /\ requests # <<>>
    /\ LastRequest.by = by
    /\ LastRequest.svc = svc

\* A str-or-None argument that the caller gave a value.
Supplied(s) == s \notin {NONE, ""}

\* None of the three input groups of the constructor is fully supplied.
NoGroupSupplied(a) ==
    /\ ~Supplied(a.rc)
    /\ ~(Supplied(a.provincia) /\ Supplied(a.municipio) /\ Supplied(a.poligono)
            /\ Supplied(a.parcela))
    /\ ~(Supplied(a.provincia) /\ Supplied(a.municipio) /\ Supplied(a.tipo_via)
            /\ Supplied(a.calle) /\ Supplied(a.numero))

\* C1: a ParcelaCatastral or MetaParcela constructor called with none of the
\* three input groups fully supplied fails with ValueError in its first step,
\* with no request issued; the ValueError is the insufficient-information one
\* whenever the projection (checked before the groups) is a supported one.
C1_InsufficientInput ==
    [][(pc \in {"ParcelaCatastral.__init__", "MetaParcela.__init__"} /\ NoGroupSupplied(args))
        => /\ pc' = "done"
           /\ outcome'.status = "raised"
           /\ outcome'.type = "ValueError"
           /\ requests' = <<>>
           /\ (cls = "MetaParcela" \/ args.projection \in listar_sistemas_referencia)
                => outcome' = Exc("ValueError", MSG_INSUFFICIENT)]_vars

\* A constructor call with province, municipality and polygon but no parcel
\* number has failed for insufficient input without a request.
C1_Witness ==
    /\ pc = "done"
    /\ outcome = Exc("ValueError", MSG_INSUFFICIENT)
    /\ requests = <<>>
    /\ args.provincia = "Madrid" /\ args.municipio = "Getafe" /\ args.poligono = "23"
    /\ args.parcela = NONE /\ args.rc = NONE

\* The last answer is a decoded, error-free record under key k whose ambiguity
\* counter is greater than 1.
AmbiguousAnswer(k) ==
    /\ answer.kind = "json"
    /\ Len(answer.doc) > 0
    /\ answer.doc[1].key = k
    /\ ~IsNone(answer.doc[1].val)
    /\ "lerr" \notin DOMAIN answer.doc[1].val
    /\ HasPath(answer.doc[1].val, <<"control", "cudnp">>)
    /\ answer.doc[1].val.control.cudnp > 1

UmbrellaIds(k) ==
    LET result == DictGet(meta.info, k)
    IN  IF ~IsNone(result) /\ HasPath(result, <<"lrcdnp", "rcdnp">>)
        THEN [i \in DOMAIN result.lrcdnp.rcdnp |-> Join(result.lrcdnp.rcdnp[i].rc)]
        ELSE <<>>

IsParcelLookup(r) == r.by = "ParcelaCatastral" /\ r.svc = "Consulta_DNPRC"

\* The identifiers the nested ParcelaCatastral constructors looked up, in order.
LookedUp ==
    LET l == SelectSeq(requests, IsParcelLookup)
    IN  [i \in DOMAIN l |-> l[i].refcat]

\* C3: a MetaParcela identifier lookup answered an error-free record with
\* counter N > 1 and an umbrella list of N identifiers, all of whose parcels
\* resolved, returns with exactly N parcels in parcelas, the i-th one looked
\* up by the i-th identifier of the list.
C3_CollectionOfN ==
    (/\ cls = "MetaParcela"
     /\ pc = "done"
     /\ outcome.status = "returned"
     /\ meta.strategy = "rc"
     /\ meta.num > 1
     /\ Len(UmbrellaIds(K_DNPRC)) = meta.num)
        => /\ Len(meta.obj.parcelas) = meta.num
           /\ LookedUp = UmbrellaIds(K_DNPRC)

\* The last answer is a decoded body whose first value carries an error list:
\* the case in which the classifier signals an error.
ErrorAnswer ==
    /\ answer.kind = "json"
    /\ Len(answer.doc) > 0
    /\ ~IsNone(answer.doc[1].val)
    /\ "lerr" \in DOMAIN answer.doc[1].val

\* The description of the first upstream error of the last answer.
FirstErrorDes ==
    LET lerr == answer.doc[1].val.lerr
    IN  IF lerr.type = "dict" THEN lerr.err[1].des ELSE lerr.items[1].des

\* C4: when the answer to Consulta_DNPRC or Consulta_DNPPP of a
\* ParcelaCatastral carries an error list, the constructor has failed with
\* ErrorServidorCatastro whose message is the description of the first error,
\* and that lookup is the last request issued.
C4_UpstreamError ==
    ((LastIs("ParcelaCatastral", "Consulta_DNPRC") \/ LastIs("ParcelaCatastral", "Consulta_DNPPP"))
        /\ ErrorAnswer)
        => /\ pc = "done"
           /\ outcome = Exc("ErrorServidorCatastro", FirstErrorDes)
           /\ reads = NotRead

\* The polygon lookup of a ParcelaCatastral was answered a list of two errors
\* and failed with the description of the first.
C4_Witness ==
    /\ cls = "ParcelaCatastral"
    /\ LastIs("ParcelaCatastral", "Consulta_DNPPP")
    /\ ErrorAnswer
    /\ answer.doc[1].val.lerr.type = "list"
    /\ Len(answer.doc[1].val.lerr.items) = 2
    /\ outcome = Exc("ErrorServidorCatastro", "EL NUMERO NO EXISTE")

\* The caller's ParcelaCatastral(...) call returned without raising.
ParcelaReturned ==
    /\ cls = "ParcelaCatastral"
    /\ pc = "done"
    /\ outcome.status = "returned"

\* The attributes of a complete parcel.
CompleteFields ==
    { "rc", "tipo", "provincia", "municipio", "regiones", "centroide", "geometria",
      "superficie_total", "superficie", "superficie_construida" }

\* C5: a ParcelaCatastral constructor that returns without raising returns an
\* object on which rc, tipo, provincia, municipio, regiones, centroide,
\* geometria, superficie_total, superficie and superficie_construida are all
\* set, whatever the services answered.
C5_CompleteOrRaises ==
    ParcelaReturned => CompleteFields \subseteq DOMAIN self

\* Every parcel a constructor has returned: the caller's own, or the ones a
\* MetaParcela collected; resolved when the descriptive record was read.
ReturnedParcels ==
    (IF ParcelaReturned THEN {self} ELSE {})
        \cup (IF cls = "MetaParcela" /\ HasAttr(meta.obj, "parcelas")
              THEN { meta.obj.parcelas[i] : i \in DOMAIN meta.obj.parcelas }
              ELSE {})

ResolvedParcels == { p \in ReturnedParcels : HasAttr(p, "tipo") }

\* The value of a surface string, digit by digit.
RECURSIVE SurfaceValue(_)
SurfaceValue(s) ==
    IF s = <<>> THEN 0 ELSE 10 * SurfaceValue(SubSeq(s, 1, Len(s) - 1)) + DigitVal(s[Len(s)])

RECURSIVE RegionTotal(_)
RegionTotal(regiones) ==
    IF regiones = <<>> THEN 0
    ELSE SurfaceValue(Head(regiones).superficie) + RegionTotal(Tail(regiones))

\* C6: on every resolved ParcelaCatastral, superficie and
\* superficie_construida are the same value, the sum of the superficie of
\* the entries of regiones (0 when there is none).
C6_SurfaceSum ==
    \A p \in ResolvedParcels :
        /\ p.superficie = p.superficie_construida
        /\ p.superficie = RegionTotal(p.regiones)

\* A parcel with the regions of surfaces 3 and 12 was returned with 15.
C6_Witness ==
    /\ ParcelaReturned
    /\ HasAttr(self, "tipo")
    /\ Len(self.regiones) = 2
    /\ self.regiones[1].superficie = <<"3">>
    /\ self.regiones[2].superficie = <<"1", "2">>
    /\ self.superficie = 15
    /\ self.superficie_construida = 15

\* The distance between two points of the ring.
EdgeLength(p, q) ==
    distancia_entre_dos_puntos_geograficos(lat_lon_from_coords_dict(p),
                                           lat_lon_from_coords_dict(q))

\* C7: on a resolved ParcelaCatastral whose ring geometria has L >= 3 points,
\* distancias_aristas has L entries, the first the distance from the last
\* point to the first, every other one the distance from the point before to
\* its own point, and perimetro is their sum.
C7_EdgeDistances ==
    (reads.done /\ HasAttr(self, "tipo") /\ Len(self.geometria) >= 3)
        => LET g == self.geometria
               L == Len(self.geometria)
               d == reads.distancias_aristas
           IN  /\ d.kind = "value"
               /\ Len(d.v) = L
               /\ d.v[1] = EdgeLength(g[L], g[1])
               /\ \A i \in 2..L : d.v[i] = EdgeLength(g[i - 1], g[i])
               /\ reads.perimetro.kind = "value"
               /\ reads.perimetro.v = SumSeq(d.v)

\* The derived properties of a parcel with the ring (0,0), (0,1), (1,1) were
\* read: edges 2, 1, 1 and perimeter 4.
C7_Witness ==
    /\ reads.done
    /\ HasAttr(self, "tipo")
    /\ self.geometria = <<[x |-> "0", y |-> "0"], [x |-> "1", y |-> "0"], [x |-> "1", y |-> "1"]>>
    /\ reads.distancias_aristas.v = <<2, 1, 1>>
    /\ reads.perimetro.v = 4

\* C8: on every returned ParcelaCatastral without a boundary ring (geometria
\* empty or never set), reading distancias_aristas and perimetro gives None
\* for both, and neither read raises.
C8_NoRingNoDistances ==
    (reads.done /\ (~HasAttr(self, "geometria") \/ self.geometria = <<>>))
        => /\ reads.distancias_aristas.kind = "None"
           /\ reads.perimetro.kind = "None"

UrbanGroup == { "calle", "numero", "antiguedad", "uso" }
RusticGroup == { "poligono", "parcela", "nombre_paraje" }

\* C9: on every resolved ParcelaCatastral, whichever lookup path built it,
\* a parcel of tipo Urbano has the urban group set and none of the rustic
\* group, and a parcel of tipo Rústico has the rustic group set and none of
\* the urban group.
C9_VariantExclusivity ==
    \A p \in ResolvedParcels :
        /\ p.tipo = "Urbano"
            => (UrbanGroup \subseteq DOMAIN p /\ RusticGroup \cap DOMAIN p = {})
        /\ p.tipo = "Rústico"
            => (RusticGroup \subseteq DOMAIN p /\ UrbanGroup \cap DOMAIN p = {})

\* C10: the rc of a ParcelaCatastral returned from an identifier lookup that
\* resolved to a single match is the concatenation of the parts of
\* bico.bi.idbi.rc of the answer to that lookup, whatever rc was passed.
C10_CanonicalRc ==
    (ParcelaReturned /\ HasAttr(self, "tipo"))
        => self.rc = Join(DictGet(info, K_DNPRC).bico.bi.idbi.rc)

\* A parcel looked up as 15VK was returned with the rc 15PK of the payload.
C10_Witness ==
    /\ ParcelaReturned
    /\ HasAttr(self, "tipo")
    /\ requests[1] = Req("ParcelaCatastral", "Consulta_DNPRC", "15VK", "")
    /\ self.rc = "15PK"

\* The last answer is a decoded address-lookup body whose error list (in
\* either shape) starts with the error of code "43" and which lists the
\* numbers of the street.
Code43Answer ==
    /\ answer.kind = "http"
    /\ answer.content.kind = "json"
    /\ Len(answer.content.doc) > 0
    /\ ~IsNone(answer.content.doc[1].val)
    /\ "lerr" \in DOMAIN answer.content.doc[1].val
    /\ LET lerr == answer.content.doc[1].val.lerr
       IN  IF lerr.type = "dict" THEN lerr.err[1].cod = "43" ELSE lerr.items[1].cod = "43"
    /\ HasPath(answer.content.doc[1].val, <<"numerero", "nump">>)

\* The house numbers the last answer reports, in order.
ReportedNumbers ==
    LET nump == answer.content.doc[1].val.numerero.nump
    IN  [i \in DOMAIN nump |-> nump[i].num.pnp]

\* C11: when the answer to the address lookup of a ParcelaCatastral carries an
\* error list whose first error has code "43", whatever the status, the
\* constructor has failed with the "number does not exist" Exception whose
\* message lists every house number the answer reports.
C11_HouseNumberNotFound ==
    (LastIs("ParcelaCatastral", "Consulta_DNPLOC") /\ Code43Answer)
        => /\ pc = "done"
           /\ outcome.status = "raised"
           /\ outcome.type = "Exception"
           /\ outcome.msg = "Ese numero no existe. Prueba con alguno de estos: ["
                                \o ReprItems(ReportedNumbers) \o "]"

\* C12: a ParcelaCatastral constructor called with a projection outside the
\* supported set fails in its first step with the reference-system
\* ValueError, whatever the other arguments are (a complete group or none),
\* with no request issued and no attribute stored.
C12_UnsupportedProjection ==
    [][(pc = "ParcelaCatastral.__init__" /\ args.projection \notin listar_sistemas_referencia)
        => /\ pc' = "done"
           /\ outcome' = Exc("ValueError", MSG_PROJECTION)
           /\ requests' = <<>>
           /\ self' = NewParcela]_vars

\* ParcelaCatastral() with no input group and the projection EPSG:0 failed
\* for the projection, not for the missing input.
C12_Witness ==
    /\ cls = "ParcelaCatastral"
    /\ pc = "done"
    /\ outcome = Exc("ValueError", MSG_PROJECTION)
    /\ requests = <<>>
    /\ args.projection = "EPSG:0"
    /\ args.rc = NONE /\ args.provincia = NONE

\* The reference system a caller of MetaParcela asked for: the one passed, or
\* the default of the single-entity constructor.
RequestedProjection ==
    IF "projection" \in DOMAIN args /\ args.projection # NONE
    THEN args.projection
    ELSE DefaultProjection

\* C13: a MetaParcela call that passes a projection is accepted like a
\* ParcelaCatastral call (it does not fail on the keyword), and every
\* geometry request of its parcels asks for the requested reference system.
C13_CollectionProjection ==
    cls = "MetaParcela"
        => /\ ~(outcome.status = "raised" /\ outcome.type = "TypeError")
           /\ \A i \in DOMAIN requests :
                requests[i].svc = "GetParcel" => requests[i].srsname = RequestedProjection

\* The code ran the classifier on the last answer.
Classified == \E i \in DOMAIN ops : ops[i] = "classify"

\* C14: on the identifier lookup of a ParcelaCatastral, a body of length zero
\* ends the constructor with ErrorServidorCatastro "respuesta vacia" and a
\* body that is no JSON with ErrorServidorCatastro "no devuelve un JSON"; in
\* both cases the classifier did not run and the lookup is the last request.
C14_EmptyOrMalformed ==
    LastIs("ParcelaCatastral", "Consulta_DNPRC")
        => /\ answer.kind = "empty"
                => (/\ pc = "done"
                    /\ outcome = Exc("ErrorServidorCatastro", MSG_EMPTY)
                    /\ ~Classified)
           /\ answer.kind = "text"
                => (/\ pc = "done"
                    /\ outcome = Exc("ErrorServidorCatastro", MSG_NOT_JSON)
                    /\ ~Classified)

\* ParcelaCatastral(rc=...) was answered a body that is no JSON and failed
\* after its single request.
C14_Witness ==
    /\ cls = "ParcelaCatastral"
    /\ LastIs("ParcelaCatastral", "Consulta_DNPRC")
    /\ Len(requests) = 1
    /\ answer.kind = "text"
    /\ ops = <<"decode">>
    /\ outcome = Exc("ErrorServidorCatastro", MSG_NOT_JSON)

\* C15: a MetaParcela constructor in which the constructor of a parcel raised
\* has ended with that exception and returns nothing; and a MetaParcela that
\* was returned holds one parcel for every identifier it looked up, none
\* having been skipped.
C15_AllOrNothing ==
    cls = "MetaParcela"
        => /\ outcome.status = "raised" => pc = "done"
           /\ (outcome.status = "returned" /\ HasAttr(meta.obj, "parcelas"))
                => Len(meta.obj.parcelas) = Len(LookedUp)

\* The first parcel of a MetaParcela was resolved and appended, the lookup of
\* the second was answered an upstream error, and the constructor failed
\* with it.
C15_Witness ==
    /\ cls = "MetaParcela"
    /\ pc = "done"
    /\ HasAttr(meta.obj, "parcelas")
    /\ Len(meta.obj.parcelas) = 1
    /\ Len(LookedUp) = 2
    /\ LastIs("ParcelaCatastral", "Consulta_DNPRC")
    /\ ErrorAnswer
    /\ outcome = Exc("ErrorServidorCatastro", FirstErrorDes)

\* The strategy the priority order gives for the arguments a: identifier,
\* then polygon coordinates, then address.
ExpectedStrategy(a) ==
    IF Supplied(a.rc) THEN "__create_from_rc"
    ELSE IF Supplied(a.provincia) /\ Supplied(a.municipio) /\ Supplied(a.poligono)
            /\ Supplied(a.parcela)
    THEN "__create_from_parcel"
    ELSE IF Supplied(a.provincia) /\ Supplied(a.municipio) /\ Supplied(a.tipo_via)
            /\ Supplied(a.calle) /\ Supplied(a.numero)
    THEN "__create_from_address"
    ELSE "none"

\* C16: __init__ of ParcelaCatastral (given a supported projection) and of
\* MetaParcela calls exactly the method the priority order gives: the
\* identifier strategy when rc is supplied, whatever else is; else the
\* polygon strategy when its four inputs are; else the address strategy when
\* its five inputs are; and it issues no request itself.
C16_StrategyPriority ==
    [][/\ (/\ pc = "ParcelaCatastral.__init__"
           /\ args.projection \in listar_sistemas_referencia
           /\ ExpectedStrategy(args) # "none")
            => (pc' = ExpectedStrategy(args) /\ requests' = requests)
       /\ (pc = "MetaParcela.__init__" /\ ExpectedStrategy(args) # "none")
            => (pc' = "MetaParcela." \o ExpectedStrategy(args) /\ requests' = requests)]_vars

\* MetaParcela.__init__ chose the address strategy: the method is about to
\* run with the five address inputs, before any request.
C16_Witness ==
    /\ cls = "MetaParcela"
    /\ pc = "MetaParcela.__create_from_address"
    /\ requests = <<>>
    /\ args.tipo_via = "CL" /\ args.calle = "Mayor" /\ args.numero = "7"
    /\ ~HasAttr(meta.obj, "rc")
    /\ ~HasAttr(meta.obj, "poligono")

\* C17: a MetaParcela constructor that returns without raising, whatever
\* strategy ran and whatever the error-free answers were, leaves parcelas
\* set and non-empty, with no two parcels of the same rc.
C17_DistinctNonEmpty ==
    (cls = "MetaParcela" /\ pc = "done" /\ outcome.status = "returned")
        => /\ HasAttr(meta.obj, "parcelas")
           /\ meta.obj.parcelas # <<>>
           /\ \A i, j \in DOMAIN meta.obj.parcelas :
                i # j => meta.obj.parcelas[i].rc # meta.obj.parcelas[j].rc

----------------------------------------------------------------------------
(* The classifier on its own: comprobar_errores(respuesta) called with any
   envelope of up to MaxTopLevel top-level values. *)

\* Top-level values: error lists of both shapes, None, and error-free values.
TopLevelValues ==
    ErrorValues \cup {NoneV}
        \cup { [bico |-> Bico("RU", "rus", <<>>, <<"15", "VK">>)],
               [bico |-> Bico("UR", "urb", <<>>, <<"15", "PK">>)],
               [control |-> [cudnp |-> 2], lrcdnp |-> [rcdnp |-> <<>>]] }

TopLevelKeys == <<K_DNPRC, "extra", "more", "other">>

Envelopes ==
    UNION { { [i \in 1..n |-> [key |-> TopLevelKeys[i], val |-> v[i]]] :
                v \in [1..n -> TopLevelValues] } : n \in 0..MaxTopLevel }

\* What a call of a function gave: the exception, or the value returned
\* (its repr in msg).
Value(ret) == [status |-> "returned", type |-> "", msg |-> ret]

InitClassifier ==
    /\ cls = "utils"
    /\ pc = "comprobar_errores"
    /\ args \in { [respuesta |-> e] : e \in Envelopes }
    /\ self = NewParcela
    /\ meta = NewMeta
    /\ info = <<>>
    /\ requests = <<>>
    /\ answer = NoAnswer
    /\ ops = <<>>
    /\ outcome = Running
    /\ reads = NotRead

Call_comprobar_errores ==
    /\ pc = "comprobar_errores"
    /\ pc' = "done"
    /\ LET r == comprobar_errores(args.respuesta)
       IN  outcome' = IF r.exc.status = "raised" THEN r.exc ELSE Value(r.ret)
    /\ UNCHANGED <<cls, args, self, meta, info, requests, answer, ops, reads>>

NextClassifier == Call_comprobar_errores

SpecClassifier == InitClassifier /\ [][NextClassifier]_vars

\* C18: comprobar_errores looks at the first top-level value only.  When it
\* is a mapping with 'lerr', the call raises with the 'des' of the first
\* error: lerr['err'][0] in the nested shape, lerr[0] in the flat one.  When
\* it is a mapping without 'lerr', the call returns True and raises nothing.
C18_Classifier ==
    (pc = "done" /\ Len(args.respuesta) > 0 /\ ~IsNone(args.respuesta[1].val))
        => LET first == args.respuesta[1].val
           IN  IF "lerr" \in DOMAIN first
               THEN /\ outcome.status = "raised"
                    /\ outcome.msg = IF first.lerr.type = "dict"
                                     THEN first.lerr.err[1].des
                                     ELSE first.lerr.items[1].des
               ELSE outcome = Value("True")

\* The classifier was called with an error-free first value followed by a
\* value with an error list, and returned True.
C18_Witness ==
    /\ pc = "done"
    /\ Len(args.respuesta) = 2
    /\ ~IsNone(args.respuesta[1].val)
    /\ "lerr" \notin DOMAIN args.respuesta[1].val
    /\ ~IsNone(args.respuesta[2].val)
    /\ "lerr" \in DOMAIN args.respuesta[2].val
    /\ outcome = Value("True")

\* C19: comprobar_errores returns True, raising nothing, when the first
\* top-level value is None and when the envelope has no top-level value.
C19_AbsentIsNoError ==
    (pc = "done" /\ (args.respuesta = <<>> \/ IsNone(args.respuesta[1].val)))
        => outcome = Value("True")

\* The last request is a descriptive-record, code or address lookup, of
\* either class.
LastIsLookup ==
    /\ requests # <<>>
    /\ LastRequest.svc \in {"Consulta_DNPRC", "Consulta_DNPPP", "Consulta_DNPLOC"}

\* C20: on every path of ParcelaCatastral and MetaParcela, a field of the
\* decoded answer to a descriptive-record, code or address lookup is read
\* only after comprobar_errores was called on that answer, whatever the
\* status of the answer.
C20_ClassifyBeforeExtract ==
    LastIsLookup
        => \A i \in DOMAIN ops :
                ops[i] = "extract" => \E j \in 1..(i - 1) : ops[j] = "classify"

\* The services the requests went to, in the order they were issued.
Services == [i \in DOMAIN requests |-> requests[i].svc]

\* s is an initial part of t.
IsPrefix(s, t) == Len(s) <= Len(t) /\ \A i \in DOMAIN s : s[i] = t[i]

\* The caller constructs a ParcelaCatastral from an identifier: the first
\* request is the descriptive-record request.
IdentifierLookup ==
    /\ cls = "ParcelaCatastral"
    /\ requests # <<>>
    /\ requests[1].svc = "Consulta_DNPRC"

\* C21: a ParcelaCatastral constructed from an identifier issues its requests
\* in the order descriptive record, sketch image, geometry, none twice and
\* none after the geometry request; when the constructor returns without
\* raising it has issued exactly these three.
C21_ThreeRequests ==
    IdentifierLookup
        => /\ IsPrefix(Services, <<"Consulta_DNPRC", "croquis", "GetParcel">>)
           /\ ParcelaReturned => Len(requests) = 3

\* C22: when the sketch-image request of a parcel fails in transport, the
\* constructor does not fail with that error: it goes on to the geometry
\* request unless the descriptive record itself lacks a field.
C22_SketchBestEffort ==
    (LastIs("ParcelaCatastral", "croquis") /\ answer.kind = "transport_error")
        => outcome # Exc("ConnectionError", "")

\* The answer of the geography service is empty, is no XML, or lacks the
\* reference point, the boundary ring or the area value.
MalformedGeometry ==
    \/ answer.kind \in {"empty", "text"}
    \/ /\ answer.kind = "xml"
       /\ LET path == <<"FeatureCollection", "member", "CadastralParcel">>
          IN  \/ ~HasPath(answer.doc, path)
              \/ \E f \in {"referencePoint", "geometry", "areaValue"} :
                    f \notin DOMAIN At(answer.doc, path)

\* C23: when the answer of the geography service is empty, is no XML, or
\* lacks the reference point, the boundary ring or the area value, the
\* constructor of the parcel ends with ErrorServidorCatastro and returns no
\* parcel.
C23_MalformedGeometry ==
    (LastIs("ParcelaCatastral", "GetParcel") /\ MalformedGeometry)
        => /\ pc = "done"
           /\ outcome.status = "raised"
           /\ outcome.type = "ErrorServidorCatastro"

\* The cp:CadastralParcel element of the last answer of the geography service.
AnsweredParcel == At(answer.doc, <<"FeatureCollection", "member", "CadastralParcel">>)

\* C24: the boundary ring resolved from a flat list of n values has n \div 2
\* points, the k-th built from the k-th pair of values in list order, and the
\* key ('x' or 'y') that holds the first value of the reference point in the
\* centroid holds the first value of every pair in the ring.
C24_RingPairs ==
    (LastIs("ParcelaCatastral", "GetParcel") /\ HasAttr(self, "geometria"))
        => LET pl == AnsweredParcel.geometry
               ref == AnsweredParcel.referencePoint
           IN  /\ Len(self.geometria) = Len(pl) \div 2
               /\ \E first, second \in {"x", "y"} :
                    /\ first # second
                    /\ self.centroide[first] = ref[1]
                    /\ self.centroide[second] = ref[2]
                    /\ \A k \in DOMAIN self.geometria :
                        /\ self.geometria[k][first] = pl[2 * k - 1]
                        /\ self.geometria[k][second] = pl[2 * k]

\* A parcel was returned whose ring came from a list of five values: two
\* points, the fifth value dropped, the first point with unequal axes.
C24_Witness ==
    /\ ParcelaReturned
    /\ LastIs("ParcelaCatastral", "GetParcel")
    /\ Len(AnsweredParcel.geometry) = 5
    /\ Len(self.geometria) = 2
    /\ self.geometria[1].x # self.geometria[1].y
    /\ self.centroide.x # self.centroide.y

\* The block bico.bi.idbi of the descriptive record the parcel is built from.
RecordIdbi == At(DictGet(info, K_DNPRC), <<"bico", "bi", "idbi">>)

\* C25: the variant of a parcel built from a descriptive record is Rústico
\* exactly when the field bico.bi.idbi.cn of the record is "RU"; with any
\* other value, and with the field absent, it is Urbano.
C25_VariantFromCode ==
    (info # <<>> /\ HasAttr(self, "tipo"))
        => /\ self.tipo \in {"Rústico", "Urbano"}
           /\ self.tipo = "Rústico"
                <=> ("cn" \in DOMAIN RecordIdbi /\ RecordIdbi.cn = "RU")

\* A parcel was returned whose record has no field cn: it is Urbano.
C25_Witness ==
    /\ ParcelaReturned
    /\ info # <<>>
    /\ "cn" \notin DOMAIN RecordIdbi
    /\ self.tipo = "Urbano"
    /\ CompleteFields \subseteq DOMAIN self

\* The first-level value of the last address-lookup answer.
AddressResult == answer.content.doc[1].val

\* The last answer is an address-lookup answer to ParcelaCatastral with status
\* 200 and a decodable body without error list, whose ambiguity counter is at
\* most 1 and which carries an identifier: a non-empty umbrella list, or a
\* single record.
UsableAddressAnswer ==
    /\ LastIs("ParcelaCatastral", "Consulta_DNPLOC")
    /\ answer.kind = "http"
    /\ answer.status_code = 200
    /\ answer.content.kind = "json"
    /\ Len(answer.content.doc) > 0
    /\ ~IsNone(AddressResult)
    /\ "lerr" \notin DOMAIN AddressResult
    /\ HasPath(AddressResult, <<"control", "cudnp">>) => AddressResult.control.cudnp <= 1
    /\ IF "lrcdnp" \in DOMAIN AddressResult
       THEN Len(AddressResult.lrcdnp.rcdnp) >= 1
       ELSE HasPath(AddressResult, <<"bico", "bi", "idbi", "rc">>)

\* The identifier such an answer gives: the first entry of the umbrella list
\* when the answer has one, the one of the single record otherwise.
AddressRc ==
    IF "lrcdnp" \in DOMAIN AddressResult
    THEN Join(AddressResult.lrcdnp.rcdnp[1].rc)
    ELSE Join(AddressResult.bico.bi.idbi.rc)

\* C26: after a usable address-lookup answer (status 200, body not empty, no
\* error list, ambiguity counter at most 1) the ParcelaCatastral constructor
\* has stored the identifier of the answer, from the first entry of the
\* umbrella list when 'lrcdnp' is present and from bico.bi.idbi.rc otherwise,
\* and goes on to resolve the parcel by that identifier without having raised.
C26_AddressIdentifier ==
    UsableAddressAnswer
        => /\ outcome = Running
           /\ pc = "__create_from_rc"
           /\ HasAttr(self, "rc")
           /\ self.rc = AddressRc

\* C27: an address-lookup answer to ParcelaCatastral with a status other than
\* 200 or with an empty body, that is no "number not found" error, ends the
\* constructor with ErrorServidorCatastro "respuesta vacia" and with no other
\* exception.
C27_AddressEmpty ==
    (/\ LastIs("ParcelaCatastral", "Consulta_DNPLOC")
     /\ answer.kind = "http"
     /\ answer.content.kind # "transport_error"
     /\ (answer.status_code # 200 \/ answer.content.kind = "empty")
     /\ ~Code43Answer)
        => /\ pc = "done"
           /\ outcome = Exc("ErrorServidorCatastro", MSG_EMPTY)

\* C29: on the polygon path of ParcelaCatastral, a code-lookup answer whose
\* body is not empty and is no JSON ends the constructor with
\* ErrorServidorCatastro "no devuelve un JSON", as on the identifier path.
C29_PolygonNotJson ==
    (LastIs("ParcelaCatastral", "Consulta_DNPPP") /\ answer.kind = "text")
        => /\ pc = "done"
           /\ outcome = Exc("ErrorServidorCatastro", MSG_NOT_JSON)

\* The fields a constructor reads from the descriptive record by variant.
PayloadFields ==
    { "tipo", "calle", "numero", "antiguedad", "uso", "poligono", "parcela",
      "nombre_paraje" }

\* This step reads a variant field from the descriptive record: the field is
\* assigned after __init__ has stored the search inputs.
ExtractsField ==
    /\ pc # "ParcelaCatastral.__init__"
    /\ \E f \in PayloadFields :
        /\ HasAttr(self', f)
        /\ ~HasAttr(self, f) \/ self'[f] # self[f]

\* The identifier of the descriptive record the parcel is built from.
RecordRc == Join(RecordIdbi.rc)

\* C28 as stated: in a ParcelaCatastral constructor rc is assigned before a
\* variant field is read from the descriptive record, and once rc has been
\* assigned no step changes its value.
C28_RcImmutable ==
    [][cls = "ParcelaCatastral"
        => /\ ExtractsField => HasAttr(self, "rc")
           /\ HasAttr(self, "rc") => (HasAttr(self', "rc") /\ self'.rc = self.rc)]_vars

\* C28 as the code has it: rc holds the identifier of the descriptive record
\* before a variant field is read from the record, and from the assignment of
\* that identifier on (line 112) no step changes rc; the value __init__ (line
\* 210) or the code lookup (line 155) stored before is replaced by it.
C28_RcBeforeFields ==
    [][cls = "ParcelaCatastral"
        => /\ ExtractsField
                => (/\ info # <<>>
                    /\ HasAttr(self, "rc")
                    /\ self.rc = RecordRc)
           /\ info # <<>>
                => (/\ HasAttr(self, "rc")
                    /\ HasAttr(self', "rc")
                    /\ self'.rc = self.rc)]_vars

\* The caller passed one identifier, the descriptive record gave another, and
\* the parcel was returned with the fields read and the identifier of the
\* record.
C28_Witness ==
    /\ ParcelaReturned
    /\ IdentifierLookup
    /\ requests[1].refcat = "15VK"
    /\ info # <<>>
    /\ RecordRc = "15PK"
    /\ self.rc = "15PK"
    /\ HasAttr(self, "tipo")
    /\ self.tipo = "Rústico"
    /\ HasAttr(self, "nombre_paraje")

====
